---- MODULE Spec2Model ----
(***************************************************************************)
(* Model of the resilient database connectivity layer of                   *)
(* src/src/db/service.rs: the SharedClient background task (spawn_client), *)
(* get_client / check_version, and the VersionedStatement state machine    *)
(* (get_statement, prepare and the dispatch methods generated by           *)
(* impl_client_method).                                                    *)
(*                                                                         *)
(* Everything runs on one single-threaded reactor (Rc / RefCell), so the   *)
(* code between two .await points is one atomic step of the model.         *)
(***************************************************************************)
EXTENDS Integers, Sequences, FiniteSets, TLC

\* const MAX_RETRIES: u32 = 10;
MAX_RETRIES == 10

\* Bound on the number of connect sequences the background task starts.
MaxVersion == 3

\* The same bound where two callers run concurrently.
MaxVersionConc == 2

\* The failed connect() attempts of one connect sequence are counted up to this
\* (where two callers run concurrently they are not counted).
MaxConnectFailures == 2

\* The statements DbService::prepare warms (8 of UserService, 11 of
\* ArticleService in the code), in their order.
NumHandles == 3

\* The values a column of a row can hold.
MaxColumnValue == 1

\* USER_COLUMNS: id, username, email, password, bio, image, created_at, updated_at
UserColumns == 8

\* The servers of the `servers` list of the configuration, numbered as
\* MainStopper::new_server numbers them (from 1 here, from 0 in the code).
NumServers == 2

\* The /stop requests that are answered during one run.
MaxStops == 2

\* The logical tasks that call into one VersionedStatement.
Callers == {"c1", "c2"}

\* query / query_one / query_opt / execute are generated by impl_client_method.
DispatchMethods == {"query", "query_one", "query_opt", "execute"}

Methods == DispatchMethods \cup {"prepare"}

\* The methods the concurrent callers use: the four dispatch methods are one macro.
ConcMethods == {"prepare", "execute"}

VARIABLES
  cl_state,   \* VersionedClient.state : ClientState
  bg,         \* position of the spawn_client background task
  st_state,   \* VersionedStatement.state : StatementState
  st_log,     \* the values given to set_state during the last step, in order
  st_prepares, \* history: the client versions this statement sent a prepare request to
  call,       \* per caller: position and locals of the call it is executing
  io,         \* history: the physical request whose completion the last step handled
  connect_failures, \* history: failed connect() attempts of the current connect sequence
  q,          \* UserService::get_by_id: the dispatch outcome and what is made of it
  handles,    \* the VersionedStatement.state of each statement DbService::prepare warms
  warm,       \* DbService::prepare: the statement it is at and what it returned
  cv,         \* the last check_version call, if any: argument, state read, result
  st_prepared, \* history, where kept: the versions of the Prepared states entered
  serve       \* the serve command, once execute has spawned the servers: see Serving

vars == <<cl_state, bg, st_state, st_log, st_prepares, call, io, connect_failures,
          q, handles, warm, cv, st_prepared,
          serve>>

\* the state of the entity query sets, which the actions on the single statement
\* and the background task leave alone
entity_vars == <<q, handles, warm, cv, serve>>

----------------------------------------------------------------------------
\* enum ClientState
ClientState_Disconnected(v) == [kind |-> "Disconnected", version |-> v]

ClientState_Connecting(v) == [kind |-> "Connecting", version |-> v]

\* Connected(RefClient), RefClient = Rc<(u64, Client)>: the version names the client
ClientState_Connected(v) == [kind |-> "Connected", version |-> v]

\* enum StatementState
StatementState_Init(v) == [kind |-> "Init", version |-> v]

StatementState_WaitingClient(v) == [kind |-> "WaitingClient", version |-> v]

StatementState_Preparing(v) == [kind |-> "Preparing", version |-> v]

\* Prepared(RefClientStatement): ClientStatement { cl, statement }; get_version() = cl.0
StatementState_Prepared(v) == [kind |-> "Prepared", version |-> v]

----------------------------------------------------------------------------
\* tokio_postgres::Error as the code inspects it: code() and to_string()
NoError == [code |-> "None", msg |-> ""]

ErrClosed == [code |-> "None", msg |-> "connection closed"]

ErrClient == [code |-> "None", msg |-> "unexpected message from server"]

ErrServer == [code |-> "Some", msg |-> "db error"]

\* no physical request completed in the step
IoNone == [req |-> "none", err |-> NoError]

\* cl.1.prepare / cl.$method completed with `err` (NoError: Ok)
Completed(req, err) == [req |-> req, err |-> err]

\* crate::error::Error values a call can return
Result_None == [kind |-> "None", err |-> NoError, version |-> 0]

Result_Ok(v) == [kind |-> "Ok", err |-> NoError, version |-> v]

DisconnectedError == [kind |-> "DisconnectedError", err |-> NoError, version |-> 0]

PgError(e) == [kind |-> "PgError", err |-> e, version |-> 0]

\* A caller between two calls, holding what its last call returned. The fields of a
\* running call: pc (the .await it is suspended at), op (the method), retries,
\* gs_retries, gc_retries (the `retries` locals of the dispatch method, of
\* get_statement and of get_client), version (the `version` local of the Init
\* branch), cl (the version of the client the pending request was sent to) and
\* dispatches (history: the physical dispatches this call has issued).
Idle(result) ==
  [pc |-> "idle", op |-> "none", retries |-> 0, gs_retries |-> 0, gc_retries |-> 0,
   version |-> 0, cl |-> 0, dispatches |-> 0, result |-> result]

----------------------------------------------------------------------------
\* SharedClient (the Connection Manager)

\* a connect sequence that forgets to advance the version
next_version_same(version) == version

\* spawn_client: version += 1 at the top of the outer loop
next_version(version) == version + 1

\* a version check that only looks at the kind of the state
check_version_any(cs, version) == cs.kind = "Connected"

\* a version check that compares the number whatever the kind of the state
check_version_ignores_kind(cs, version) == cs.version = version

\* a version check that never finds the statement current
check_version_never(cs, version) == FALSE

\* SharedClient::check_version
check_version(cs, version) == cs.kind = "Connected" /\ cs.version = version

\* The physical connection of `version` is alive while the background task is
\* driving its I/O future (conn.await); the future is dropped when it completes.
connection_alive(version) ==
  bg = "serving" /\ cl_state = ClientState_Connected(version)

\* What a physical request (prepare or dispatch) on the client of `version` can
\* complete with: a closed connection only ever yields "connection closed".
physical_outcomes(version) ==
  IF connection_alive(version) THEN {NoError, ErrClient, ErrServer} ELSE {ErrClosed}

\* a classification that compares with another message text
is_connection_closed_text(err) ==
  CASE err.code = "None" -> err.msg = "connection is closed"
    [] OTHER -> FALSE

\* The retry-vs-propagate classification shared by get_statement and the
\* dispatch methods: err.code() is None and err.to_string() == "connection closed"
is_connection_closed(err) ==
  CASE err.code = "None" -> err.msg = "connection closed"
    [] OTHER -> FALSE

----------------------------------------------------------------------------
\* VersionedStatement::get_statement, run from one suspension point to the next.
\* The outcome says where the call suspends ("get_client", "prepare", "poll") or
\* that it returned ("return", with result), the StatementState it leaves and the
\* values it gave to set_state on the way.
GsOut(st, log, at, retries, gc, version, cl, result) ==
  [st |-> st, log |-> log, at |-> at, retries |-> retries, gc |-> gc,
   version |-> version, cl |-> cl, result |-> result]

\* an Init branch that forgets `let version = cl.0` and keeps the Init version
get_client_keeps_version(cs, log, retries, gc, version) ==
  IF cs.kind = "Connected"
  THEN GsOut(StatementState_Preparing(version),
             Append(log, StatementState_Preparing(version)),
             "prepare", retries, 0, 0, cs.version, Result_None)
  ELSE GsOut(StatementState_WaitingClient(version), log,
             "get_client", retries, gc, version, 0, Result_None)

\* an Init branch that numbers the statement one ahead of the client it got
get_client_ahead(cs, log, retries, gc, version) ==
  IF cs.kind = "Connected"
  THEN GsOut(StatementState_Preparing(cs.version + 1),
             Append(log, StatementState_Preparing(cs.version + 1)),
             "prepare", retries, 0, 0, cs.version, Result_None)
  ELSE GsOut(StatementState_WaitingClient(version), log,
             "get_client", retries, gc, version, 0, Result_None)

\* One poll of get_client inside the Init branch; `version` is the Init version,
\* `gc` the polls of this get_client call that already failed.
get_client(cs, log, retries, gc, version) ==
  IF cs.kind = "Connected"
  THEN GsOut(StatementState_Preparing(cs.version),
             Append(log, StatementState_Preparing(cs.version)),
             "prepare", retries, 0, 0, cs.version, Result_None)
  ELSE GsOut(StatementState_WaitingClient(version), log,
             "get_client", retries, gc, version, 0, Result_None)

RECURSIVE get_statement_loop(_, _, _, _)
RECURSIVE get_statement_next(_, _, _, _)

\* a loop in which a caller that finds WaitingClient does not wait but enters the
\* Init branch itself
get_statement_loop_redrives(cs, st, log, retries) ==
  CASE st.kind \in {"Init", "WaitingClient"} ->
         get_client(cs, Append(log, StatementState_WaitingClient(st.version)),
                    retries, 0, st.version)
    [] st.kind = "Preparing" ->
         GsOut(st, log, "poll", retries, 0, 0, 0, Result_None)
    [] st.kind = "Prepared" ->
         IF check_version(cs, st.version)
         THEN GsOut(st, log, "return", 0, 0, 0, 0, Result_Ok(st.version))
         ELSE get_statement_next(cs, StatementState_Init(st.version),
                                 Append(log, StatementState_Init(st.version)), retries)

\* the body of the loop: match self.get_state()
get_statement_loop(cs, st, log, retries) ==
  CASE st.kind = "Init" ->
         get_client(cs, Append(log, StatementState_WaitingClient(st.version)),
                    retries, 0, st.version)
    [] st.kind \in {"WaitingClient", "Preparing"} ->
         GsOut(st, log, "poll", retries, 0, 0, 0, Result_None)
    [] st.kind = "Prepared" ->
         IF check_version(cs, st.version)
         THEN GsOut(st, log, "return", 0, 0, 0, 0, Result_Ok(st.version))
         ELSE get_statement_next(cs, StatementState_Init(st.version),
                                 Append(log, StatementState_Init(st.version)), retries)

\* a loop ceiling tested with > instead of >=
get_statement_next_off_by_one(cs, st, log, retries) ==
  IF retries + 1 > MAX_RETRIES
  THEN GsOut(st, log, "return", 0, 0, 0, 0, DisconnectedError)
  ELSE get_statement_loop(cs, st, log, retries + 1)

\* the end of the loop: retries += 1; if retries >= MAX_RETRIES
get_statement_next(cs, st, log, retries) ==
  IF retries + 1 >= MAX_RETRIES
  THEN GsOut(st, log, "return", 0, 0, 0, 0, DisconnectedError)
  ELSE get_statement_loop(cs, st, log, retries + 1)

\* get_statement is called
get_statement(cs, st) == get_statement_loop(cs, st, <<>>, 0)

\* a get_client failure that leaves the statement in WaitingClient
get_client_delayed_no_revert(cs, retries, gc, version) ==
  IF gc + 1 >= MAX_RETRIES
  THEN GsOut(StatementState_WaitingClient(version), <<>>,
             "return", 0, 0, 0, 0, DisconnectedError)
  ELSE get_client(cs, <<>>, retries, gc + 1, version)

\* a get_client ceiling tested with > instead of >=
get_client_delayed_off_by_one(cs, retries, gc, version) ==
  IF gc + 1 > MAX_RETRIES
  THEN GsOut(StatementState_Init(version), <<StatementState_Init(version)>>,
             "return", 0, 0, 0, 0, DisconnectedError)
  ELSE get_client(cs, <<>>, retries, gc + 1, version)

\* get_client's delay_for is over: retries += 1; if retries >= MAX_RETRIES; poll again
get_client_delayed(cs, retries, gc, version) ==
  IF gc + 1 >= MAX_RETRIES
  THEN GsOut(StatementState_Init(version), <<StatementState_Init(version)>>,
             "return", 0, 0, 0, 0, DisconnectedError)
  ELSE get_client(cs, <<>>, retries, gc + 1, version)

\* a prepare match that gives up at the first connection-closed failure
prepared_closed_returns(cs, st, retries, cl, err) ==
  IF err = NoError
  THEN get_statement_next(cs, StatementState_Prepared(cl),
                          <<StatementState_Prepared(cl)>>, retries)
  ELSE IF is_connection_closed(err)
       THEN GsOut(StatementState_Init(cl), <<StatementState_Init(cl)>>,
                  "return", 0, 0, 0, 0, DisconnectedError)
       ELSE GsOut(st, <<>>, "return", 0, 0, 0, 0, PgError(err))

\* a prepare match that sends every error back to Init and loops
prepared_retries_fatal(cs, st, retries, cl, err) ==
  IF err = NoError
  THEN get_statement_next(cs, StatementState_Prepared(cl),
                          <<StatementState_Prepared(cl)>>, retries)
  ELSE get_statement_next(cs, StatementState_Init(cl),
                          <<StatementState_Init(cl)>>, retries)

\* cl.1.prepare(&self.query).await completed with `err` (NoError: Ok(statement))
prepared(cs, st, retries, cl, err) ==
  IF err = NoError
  THEN get_statement_next(cs, StatementState_Prepared(cl),
                          <<StatementState_Prepared(cl)>>, retries)
  ELSE IF is_connection_closed(err)
       THEN get_statement_next(cs, StatementState_Init(cl),
                               <<StatementState_Init(cl)>>, retries)
       ELSE GsOut(st, <<>>, "return", 0, 0, 0, 0, PgError(err))

----------------------------------------------------------------------------
\* What the caller does with the outcome of get_statement: keep waiting inside
\* it, return its error (the `?` of prepare and of the dispatch methods), return
\* Ok(()) from prepare, or issue the physical dispatch cl.$method(statement, ..).
after_get_statement(r, o) ==
  IF o.at # "return"
  THEN [r EXCEPT !.pc = o.at, !.gs_retries = o.retries, !.gc_retries = o.gc,
                 !.version = o.version, !.cl = o.cl]
  ELSE IF o.result.kind # "Ok"
       THEN Idle(o.result)
       ELSE IF r.op = "prepare"
            THEN Idle(Result_Ok(o.result.version))
            ELSE [r EXCEPT !.pc = "dispatch", !.gs_retries = 0, !.gc_retries = 0,
                           !.version = 0, !.cl = o.result.version,
                           !.dispatches = r.dispatches + 1]

\* a retry ceiling tested with > instead of >=
dispatched_off_by_one(r, err) ==
  IF err = NoError
  THEN Idle(Result_Ok(r.cl))
  ELSE IF is_connection_closed(err)
       THEN IF r.retries + 1 > MAX_RETRIES
            THEN Idle(DisconnectedError)
            ELSE [r EXCEPT !.pc = "retry", !.retries = r.retries + 1, !.cl = 0]
       ELSE Idle(PgError(err))

\* a retry that forgets `retries += 1`
dispatched_no_count(r, err) ==
  IF err = NoError
  THEN Idle(Result_Ok(r.cl))
  ELSE IF is_connection_closed(err)
       THEN [r EXCEPT !.pc = "retry", !.cl = 0]
       ELSE Idle(PgError(err))

\* a dispatch match that retries after every error
dispatched_retries_all(r, err) ==
  IF err = NoError
  THEN Idle(Result_Ok(r.cl))
  ELSE IF r.retries + 1 >= MAX_RETRIES
       THEN Idle(DisconnectedError)
       ELSE [r EXCEPT !.pc = "retry", !.retries = r.retries + 1, !.cl = 0]

\* impl_client_method: the match on the result of cl.$method(statement, params).await
\* (always before the next get_statement: "return" or the delay_for of a retry)
dispatched(r, err) ==
  IF err = NoError
  THEN Idle(Result_Ok(r.cl))
  ELSE IF is_connection_closed(err)
       THEN IF r.retries + 1 >= MAX_RETRIES
            THEN Idle(DisconnectedError)
            ELSE [r EXCEPT !.pc = "retry", !.retries = r.retries + 1, !.cl = 0]
       ELSE Idle(PgError(err))

\* the client versions a prepare request was sent to during a step: every
\* set_state(Preparing(version)) is followed by cl.1.prepare on that client
prepares_of(log) ==
  {log[i].version : i \in {j \in DOMAIN log : log[j].kind = "Preparing"}}

\* the versions of the Prepared states entered during a step, in order
prepared_of(log) ==
  LET entered == SelectSeq(log, LAMBDA s : s.kind = "Prepared")
  IN  [i \in DOMAIN entered |-> entered[i].version]

\* the history of the Prepared states after a step that set the states of `log`
record_prepared(h, log) ==
  {versions \o prepared_of(log) : versions \in h}

\* a step in which a statement that goes back to Init also marks the client
\* Disconnected
Step_disconnects(c, r, o) ==
  /\ st_state' = o.st
  /\ st_log' = o.log
  /\ st_prepares' = st_prepares \cup prepares_of(o.log)
  /\ call' = [call EXCEPT ![c] = after_get_statement(r, o)]
  /\ cl_state' = IF \E i \in DOMAIN o.log : o.log[i].kind = "Init"
                 THEN ClientState_Disconnected(cl_state.version)
                 ELSE cl_state
  /\ UNCHANGED <<bg, connect_failures>>
  /\ st_prepared' = record_prepared(st_prepared, o.log)
  /\ UNCHANGED entity_vars

\* the common effect of a step of caller c (record r) inside get_statement
Step(c, r, o) ==
  /\ st_state' = o.st
  /\ st_log' = o.log
  /\ st_prepares' = st_prepares \cup prepares_of(o.log)
  /\ call' = [call EXCEPT ![c] = after_get_statement(r, o)]
  /\ UNCHANGED <<cl_state, bg, connect_failures>>
  /\ st_prepared' = record_prepared(st_prepared, o.log)
  /\ UNCHANGED entity_vars

\* A caller invokes prepare, query, query_one, query_opt or execute.
Call(c, m) ==
  /\ call[c].pc = "idle"
  /\ Step(c, [Idle(Result_None) EXCEPT !.op = m], get_statement(cl_state, st_state))
  /\ io' = IoNone

\* get_client: delay_for(100ms) is over
GetClientDelay(c) ==
  /\ call[c].pc = "get_client"
  /\ Step(c, call[c], get_client_delayed(cl_state, call[c].gs_retries,
                                         call[c].gc_retries, call[c].version))
  /\ io' = IoNone

\* get_statement: the delay_for(100ms) of the WaitingClient / Preparing branches is over
PollDelay(c) ==
  /\ call[c].pc = "poll"
  /\ Step(c, call[c], get_statement_next(cl_state, st_state, <<>>, call[c].gs_retries))
  /\ io' = IoNone

\* cl.1.prepare(&self.query).await completes
PrepareDone(c) ==
  /\ call[c].pc = "prepare"
  /\ \E err \in physical_outcomes(call[c].cl) :
       /\ Step(c, call[c],
               prepared(cl_state, st_state, call[c].gs_retries, call[c].cl, err))
       /\ io' = Completed("prepare", err)

\* cl.$method(statement, params).await completes
DispatchDone(c) ==
  /\ call[c].pc = "dispatch"
  /\ \E err \in physical_outcomes(call[c].cl) :
       /\ call' = [call EXCEPT ![c] = dispatched(call[c], err)]
       /\ io' = Completed("dispatch", err)
  /\ st_log' = <<>>
  /\ UNCHANGED <<cl_state, bg, st_state, st_prepares, connect_failures>>
  /\ UNCHANGED entity_vars
  /\ UNCHANGED st_prepared

\* impl_client_method: the delay_for(100ms) before a retry is over; loop
RetryDelay(c) ==
  /\ call[c].pc = "retry"
  /\ Step(c, call[c], get_statement(cl_state, st_state))
  /\ io' = IoNone

----------------------------------------------------------------------------
\* SharedClient::spawn_client, the background task

\* top of the outer loop: version += 1; Connecting(version); connect() is awaited
Connecting(max) ==
  /\ bg \in {"spawned", "backoff"}
  /\ cl_state.version < max
  /\ cl_state' = ClientState_Connecting(next_version(cl_state.version))
  /\ bg' = "connect"
  /\ connect_failures' = 0
  /\ st_log' = <<>>
  /\ io' = IoNone
  /\ UNCHANGED <<st_state, st_prepares, call>>
  /\ UNCHANGED entity_vars
  /\ UNCHANGED st_prepared

\* connect(&url, NoTls).await fails: delay_for(500ms)
ConnectError(maxfail) ==
  /\ bg = "connect"
  /\ bg' = "connect_delay"
  /\ connect_failures' = IF connect_failures < maxfail
                         THEN connect_failures + 1 ELSE connect_failures
  /\ st_log' = <<>>
  /\ io' = IoNone
  /\ UNCHANGED <<cl_state, st_state, st_prepares, call>>
  /\ UNCHANGED entity_vars
  /\ UNCHANGED st_prepared

\* a retry that starts a new version for every connect attempt
ConnectRetryBumps ==
  /\ bg = "connect_delay"
  /\ bg' = "connect"
  /\ cl_state' = ClientState_Connecting(next_version(cl_state.version))
  /\ st_log' = <<>>
  /\ io' = IoNone
  /\ UNCHANGED <<st_state, st_prepares, call, connect_failures>>
  /\ UNCHANGED entity_vars
  /\ UNCHANGED st_prepared

\* the delay is over: connect again, same version
ConnectRetry ==
  /\ bg = "connect_delay"
  /\ bg' = "connect"
  /\ st_log' = <<>>
  /\ io' = IoNone
  /\ UNCHANGED <<cl_state, st_state, st_prepares, call, connect_failures>>
  /\ UNCHANGED entity_vars
  /\ UNCHANGED st_prepared

\* connect succeeds: Connected(Rc::new((version, cl))); conn.await
Connected ==
  /\ bg = "connect"
  /\ cl_state' = ClientState_Connected(cl_state.version)
  /\ bg' = "serving"
  /\ st_log' = <<>>
  /\ io' = IoNone
  /\ UNCHANGED <<st_state, st_prepares, call, connect_failures>>
  /\ UNCHANGED entity_vars
  /\ UNCHANGED st_prepared

\* conn.await yields Err(e): debug, then delay_for(500ms); the state is not changed
ConnectionError ==
  /\ bg = "serving"
  /\ bg' = "backoff"
  /\ st_log' = <<>>
  /\ io' = IoNone
  /\ UNCHANGED <<cl_state, st_state, st_prepares, call, connect_failures>>
  /\ UNCHANGED entity_vars
  /\ UNCHANGED st_prepared

\* conn.await yields Ok(()): "tokio-postgres connection closed."; return
ConnectionClosed ==
  /\ bg = "serving"
  /\ bg' = "stopped"
  /\ st_log' = <<>>
  /\ io' = IoNone
  /\ UNCHANGED <<cl_state, st_state, st_prepares, call, connect_failures>>
  /\ UNCHANGED entity_vars
  /\ UNCHANGED st_prepared

----------------------------------------------------------------------------
\* Option<T>
None == {}

Some(x) == {x}

\* UserService::new / ArticleService::new: every statement starts in Init(0);
\* no get_by_id and no DbService::prepare has been called
EntityInit ==
  /\ q = [called |-> FALSE, err |-> NoError, row |-> None, ret |-> Result_None,
          value |-> None, user |-> None]
  /\ handles = [i \in 1..NumHandles |-> StatementState_Init(0)]
  /\ warm = [pos |-> 0, result |-> Result_None]
  /\ cv = None

\* tokio_postgres::Row of the users select: the column values, in select order
Rows == [1..UserColumns -> 0..MaxColumnValue]

\* row.get(idx): columns are numbered from 0
row_get(row, idx) == row[idx + 1]

\* a mapping that reads id and username from each other's column
user_from_row_swapped(row) ==
  [id |-> row_get(row, 1), username |-> row_get(row, 0), email |-> row_get(row, 2),
   password |-> row_get(row, 3), bio |-> row_get(row, 4), image |-> row_get(row, 5),
   created_at |-> row_get(row, 6), updated_at |-> row_get(row, 7)]

\* user_from_row
user_from_row(row) ==
  [id |-> row_get(row, 0), username |-> row_get(row, 1), email |-> row_get(row, 2),
   password |-> row_get(row, 3), bio |-> row_get(row, 4), image |-> row_get(row, 5),
   created_at |-> row_get(row, 6), updated_at |-> row_get(row, 7)]

\* user_from_opt_row: if let Some(ref row) = row { Some(user_from_row(row)) } else { None }
user_from_opt_row(row) ==
  IF row # None THEN Some(user_from_row(CHOOSE r \in row : TRUE)) ELSE None

\* impl_client_method!(query_opt, Option<Row>), the dispatch that ends the call:
\* `Ok(res) => return Ok(res)`, an error as in `dispatched`
query_opt(err, row) ==
  [result |-> dispatched([Idle(Result_None) EXCEPT !.pc = "dispatch",
                                                  !.op = "query_opt", !.cl = 1],
                         err).result,
   value  |-> IF err = NoError THEN row ELSE None]

\* UserService::get_by_id: let row = self.user_by_id.query_opt(&[&id]).await?;
\* Ok(user_from_opt_row(&row)). The dispatch yields no row, one row, or an error.
GetById ==
  /\ ~q.called
  /\ \E err \in {NoError, ErrClient, ErrServer} :
       \E row \in {None} \cup {Some(r) : r \in Rows} :
         /\ err # NoError => row = None
         /\ LET res == query_opt(err, row)
            IN  q' = [called |-> TRUE, err |-> err, row |-> row,
                      ret |-> res.result, value |-> res.value,
                      user |-> IF res.result.kind = "Ok"
                               THEN user_from_opt_row(res.value) ELSE None]
  /\ UNCHANGED <<cl_state, bg, st_state, st_log, st_prepares, call, io,
                 connect_failures, handles, warm, cv, st_prepared>>
  /\ UNCHANGED serve

----------------------------------------------------------------------------
\* DbService::prepare, UserService::prepare, ArticleService::prepare: the
\* statements are warmed one after the other, `self.<statement>.prepare().await?`.
\* The running VersionedStatement::prepare call is the call record of "c1".

\* VersionedStatement::prepare is called on a statement
PrepareCall == [Idle(Result_None) EXCEPT !.op = "prepare"]

RECURSIVE db_prepare(_, _, _, _, _)

\* a warm-up that goes on to the next statement after an error
db_prepare_keeps_going(cs, hs, i, r, o) ==
  LET hs1 == [hs EXCEPT ![i] = o.st]
  IN  IF o.at # "return"
      THEN [handles |-> hs1, pos |-> i, call |-> after_get_statement(r, o),
            result |-> Result_None]
      ELSE IF i = NumHandles
           THEN [handles |-> hs1, pos |-> i, call |-> Idle(o.result),
                 result |-> o.result]
           ELSE db_prepare(cs, hs1, i + 1, PrepareCall, get_statement(cs, hs1[i + 1]))

\* get_statement on statement i has come to the outcome o (r: the call record):
\* it is suspended, or its error ends the warm-up (`?`), or the next statement's
\* prepare is called at once, or Ok(()) is returned after the last one
db_prepare(cs, hs, i, r, o) ==
  LET hs1 == [hs EXCEPT ![i] = o.st]
  IN  IF o.at # "return"
      THEN [handles |-> hs1, pos |-> i, call |-> after_get_statement(r, o),
            result |-> Result_None]
      ELSE IF o.result.kind # "Ok"
           THEN [handles |-> hs1, pos |-> i, call |-> Idle(o.result),
                 result |-> o.result]
           ELSE IF i = NumHandles
                THEN [handles |-> hs1, pos |-> i, call |-> Idle(Result_Ok(0)),
                      result |-> Result_Ok(0)]
                ELSE db_prepare(cs, hs1, i + 1, PrepareCall,
                                get_statement(cs, hs1[i + 1]))

\* the common effect of a step of the warm-up
WarmStep(w) ==
  /\ handles' = w.handles
  /\ warm' = [pos |-> w.pos, result |-> w.result]
  /\ call' = [call EXCEPT !["c1"] = w.call]
  /\ UNCHANGED <<cl_state, bg, st_state, st_log, st_prepares, connect_failures, q, cv,
                 st_prepared>>
  /\ UNCHANGED serve

\* DbService::prepare is called (test_db, before the server accepts traffic)
WarmStart ==
  /\ warm.pos = 0
  /\ WarmStep(db_prepare(cl_state, handles, 1, PrepareCall,
                         get_statement(cl_state, handles[1])))
  /\ io' = IoNone

\* get_client: delay_for(100ms) is over
WarmGetClientDelay ==
  /\ warm.pos >= 1
  /\ call["c1"].pc = "get_client"
  /\ WarmStep(db_prepare(cl_state, handles, warm.pos, call["c1"],
                         get_client_delayed(cl_state, call["c1"].gs_retries,
                                            call["c1"].gc_retries,
                                            call["c1"].version)))
  /\ io' = IoNone

\* cl.1.prepare(&self.query).await completes
WarmPrepareDone ==
  /\ warm.pos >= 1
  /\ call["c1"].pc = "prepare"
  /\ \E err \in physical_outcomes(call["c1"].cl) :
       /\ WarmStep(db_prepare(cl_state, handles, warm.pos, call["c1"],
                              prepared(cl_state, handles[warm.pos],
                                       call["c1"].gs_retries, call["c1"].cl, err)))
       /\ io' = Completed("prepare", err)

----------------------------------------------------------------------------
\* The serve command (src/src/app/commands/serve.rs): execute spawns one thread
\* per server, each running run_server, and the main thread waits in
\* MainStopper::wait_shutdown. The threads talk through crossbeam channels of
\* capacity 1: a send blocks while the channel is full.

Servers == 1..NumServers

\* enum StopEvent
StopEvent_Shutdown == [ev |-> "Shutdown", id |-> 0]

StopEvent_StopServer == [ev |-> "StopServer", id |-> 0]

StopEvent_StopServerFinished(id) == [ev |-> "StopServerFinished", id |-> id]

\* the database layer that the specifications above model
db_vars == <<cl_state, bg, st_state, st_log, st_prepares, call, io,
             connect_failures, q, handles, warm, cv, st_prepared>>

\* The serve command after execute has run MainStopper::new, and new_server and
\* thread::spawn for every server of the list; the main thread is about to call
\* wait_shutdown.
\*   cfg      AppConfig: `debug` and, per server, `<prefix>.stopper`
\*   main     the main thread in MainStopper::wait_shutdown: position, counters
\*   main_ch  the events in MainStopper's channel, bounded(1)
\*   srv_ch   per server: the events in the ServerStopper's channel, bounded(1)
\*   srv      per server: position of the thread that runs run_server
\*   wtr      per server: position of the thread that waits for StopServer
\*   stops    history: the Shutdown events sent by /stop requests
Serving(debug, stopper) ==
  [cfg     |-> [debug |-> debug, stopper |-> stopper],
   main    |-> [pc |-> "wait", stopped_counter |-> 0, counter |-> 0, next |-> 1,
                panic |-> ""],
   main_ch |-> <<>>,
   srv_ch  |-> [i \in Servers |-> <<>>],
   srv     |-> [i \in Servers |-> "startup"],
   wtr     |-> [i \in Servers |-> "unspawned"],
   stops   |-> 0]

\* the process lives until the main thread returns from execute or panics
ProcessAlive(s) == s.main.pc \notin {"returned", "panicked"}

\* bounded(1): a send goes through when the channel holds no event
CanSend(ch) == Len(ch) < 1

\* a ServerWaiter of server i (holding a Receiver of its channel) is alive: the
\* one run_server owns, or the clone of the thread that waits for StopServer
ReceiverAlive(s, i) ==
  \/ s.srv[i] \in {"startup", "serving", "stopped"}
  \/ s.wtr[i] \in {"wait", "stop", "notify"}

\* wait_shutdown, first loop: self.rx.recv() returns an event
recv_first(m, ev) ==
  CASE ev.ev = "Shutdown" -> [m EXCEPT !.pc = "signal", !.next = 1, !.counter = 0]
    [] ev.ev = "StopServerFinished" ->
         IF m.stopped_counter + 1 < NumServers
         THEN [m EXCEPT !.stopped_counter = m.stopped_counter + 1]
         ELSE [m EXCEPT !.stopped_counter = m.stopped_counter + 1, !.pc = "returned"]
    [] OTHER -> [m EXCEPT !.pc = "panicked",
                          !.panic = "Main thread received invalid event"]

\* wait_shutdown, `for stopper in self.servers.iter()`: stopper.shutdown() is
\* tx.send(StopEvent::StopServer).unwrap(); then counter += 1. `sent` says
\* whether the send found a receiver. After the last stopper: while counter > 0
signal(m, sent) ==
  IF ~sent
  THEN [m EXCEPT !.pc = "panicked", !.panic = "unwrap on SendError"]
  ELSE [m EXCEPT !.counter = m.counter + 1, !.next = m.next + 1,
                 !.pc = IF m.next = NumServers THEN "wait_stopped" ELSE "signal"]

\* wait_shutdown, second loop: self.rx.recv() returns an event
recv_second(m, ev) ==
  CASE ev.ev = "StopServerFinished" ->
         IF m.counter - 1 > 0
         THEN [m EXCEPT !.counter = m.counter - 1]
         ELSE [m EXCEPT !.counter = m.counter - 1, !.pc = "returned"]
    [] OTHER -> [m EXCEPT !.pc = "panicked",
                          !.panic = "Main thread received invalid event during shutdown"]

\* the main thread receives in the first loop
MainWait ==
  /\ \E s \in serve :
       /\ s.main.pc = "wait"
       /\ s.main_ch # <<>>
       /\ serve' = Some([s EXCEPT !.main = recv_first(s.main, Head(s.main_ch)),
                                  !.main_ch = Tail(s.main_ch)])
  /\ UNCHANGED db_vars

\* the main thread tells the next server to stop
MainSignal ==
  /\ \E s \in serve :
       /\ s.main.pc = "signal"
       /\ serve' = Some([s EXCEPT
            !.main = signal(s.main, ReceiverAlive(s, s.main.next)),
            !.srv_ch = IF ReceiverAlive(s, s.main.next)
                       THEN [s.srv_ch EXCEPT ![s.main.next] =
                               Append(@, StopEvent_StopServer)]
                       ELSE s.srv_ch])
  /\ UNCHANGED db_vars

\* the main thread receives in the second loop
MainWaitStopped ==
  /\ \E s \in serve :
       /\ s.main.pc = "wait_stopped"
       /\ s.main_ch # <<>>
       /\ serve' = Some([s EXCEPT !.main = recv_second(s.main, Head(s.main_ch)),
                                  !.main_ch = Tail(s.main_ch)])
  /\ UNCHANGED db_vars

\* run_server returns an error before the server runs (`?` on the configuration,
\* on test_db, on config_services or on bind): server_stopped is not called
StartupError(i) ==
  /\ \E s \in serve :
       /\ ProcessAlive(s)
       /\ s.srv[i] = "startup"
       /\ serve' = Some([s EXCEPT !.srv[i] = "failed"])
  /\ UNCHANGED db_vars

\* server.run(); with debug on the thread that waits for StopServer is spawned;
\* sys.block_on(server)
ServerRuns(i) ==
  /\ \E s \in serve :
       /\ ProcessAlive(s)
       /\ s.srv[i] = "startup"
       /\ serve' = Some([s EXCEPT !.srv[i] = "serving",
                                  !.wtr[i] = IF s.cfg.debug THEN "wait" ELSE @])
  /\ UNCHANGED db_vars

\* the server stops without having been told to by the main thread (actix-web
\* stops it on SIGINT / SIGTERM, or it ends with an error)
ServerEnds(i) ==
  /\ \E s \in serve :
       /\ ProcessAlive(s)
       /\ s.srv[i] = "serving"
       /\ serve' = Some([s EXCEPT !.srv[i] = "stopped"])
  /\ UNCHANGED db_vars

\* sys.block_on(server) has returned: waiter.server_stopped(), then run_server
\* returns
ServerStopped(i) ==
  /\ \E s \in serve :
       /\ ProcessAlive(s)
       /\ s.srv[i] = "stopped"
       /\ CanSend(s.main_ch)
       /\ serve' = Some([s EXCEPT
            !.main_ch = Append(@, StopEvent_StopServerFinished(i)),
            !.srv[i] = "terminated"])
  /\ UNCHANGED db_vars

\* the spawned thread: waiter.wait_shutdown() returns Ok(StopEvent::StopServer)
\* (nothing else is ever sent on this channel)
WaiterReceives(i) ==
  /\ \E s \in serve :
       /\ ProcessAlive(s)
       /\ s.wtr[i] = "wait"
       /\ s.srv_ch[i] # <<>>
       /\ serve' = Some([s EXCEPT !.srv_ch[i] = Tail(@), !.wtr[i] = "stop"])
  /\ UNCHANGED db_vars

\* executor::block_on(srv.stop(true)) returns: the server has stopped
WaiterStopsServer(i) ==
  /\ \E s \in serve :
       /\ ProcessAlive(s)
       /\ s.wtr[i] = "stop"
       /\ serve' = Some([s EXCEPT
            !.wtr[i] = "notify",
            !.srv[i] = IF @ = "serving" THEN "stopped" ELSE @])
  /\ UNCHANGED db_vars

\* the spawned thread: waiter.server_stopped()
WaiterNotifies(i) ==
  /\ \E s \in serve :
       /\ ProcessAlive(s)
       /\ s.wtr[i] = "notify"
       /\ CanSend(s.main_ch)
       /\ serve' = Some([s EXCEPT
            !.main_ch = Append(@, StopEvent_StopServerFinished(i)),
            !.wtr[i] = "done"])
  /\ UNCHANGED db_vars

\* GET /stop on server i (the route is registered when <prefix>.stopper is set):
\* stop_server calls waiter.main_shutdown(), whose send has gone through
StopRequest(i, max) ==
  /\ \E s \in serve :
       /\ ProcessAlive(s)
       /\ s.cfg.stopper[i]
       /\ s.srv[i] = "serving"
       /\ s.stops < max
       /\ CanSend(s.main_ch)
       /\ serve' = Some([s EXCEPT !.main_ch = Append(@, StopEvent_Shutdown),
                                  !.stops = @ + 1])
  /\ UNCHANGED db_vars

\* the steps of the threads of the process
ThreadStep ==
  \/ MainWait
  \/ MainSignal
  \/ MainWaitStopped
  \/ \E i \in Servers :
       \/ StartupError(i)
       \/ ServerRuns(i)
       \/ ServerStopped(i)
       \/ WaiterReceives(i)
       \/ WaiterStopsServer(i)
       \/ WaiterNotifies(i)

----------------------------------------------------------------------------
\* SharedClient::check_version(version) is called, by any holder of the
\* SharedClient, while the background task is wherever it is
CheckVersion(version) ==
  /\ cv' = Some([version |-> version, cs |-> cl_state,
                  ret |-> check_version(cl_state, version)])
  /\ st_log' = <<>>
  /\ io' = IoNone
  /\ UNCHANGED <<cl_state, bg, st_state, st_prepares, call, connect_failures,
                 q, handles, warm, st_prepared>>
  /\ UNCHANGED serve

----------------------------------------------------------------------------
\* VersionedClient::new, VersionedStatement::new, the background task spawned
Init ==
  /\ cl_state = ClientState_Disconnected(0)
  /\ bg = "spawned"
  /\ st_state = StatementState_Init(0)
  /\ st_log = <<>>
  /\ st_prepares = {}
  /\ call = [c \in Callers |-> Idle(Result_None)]
  /\ io = IoNone
  /\ connect_failures = 0
  /\ EntityInit
  /\ st_prepared = None
  /\ serve = None

\* the same, with the history of the Prepared states kept
HistoryInit ==
  /\ cl_state = ClientState_Disconnected(0)
  /\ bg = "spawned"
  /\ st_state = StatementState_Init(0)
  /\ st_log = <<>>
  /\ st_prepares = {}
  /\ call = [c \in Callers |-> Idle(Result_None)]
  /\ io = IoNone
  /\ connect_failures = 0
  /\ EntityInit
  /\ st_prepared = Some(<<>>)
  /\ serve = None

Background(max, maxfail) ==
  \/ Connecting(max)
  \/ ConnectError(maxfail)
  \/ ConnectRetry
  \/ Connected
  \/ ConnectionError
  \/ ConnectionClosed

Caller(c, methods) ==
  \/ \E m \in methods : Call(c, m)
  \/ GetClientDelay(c)
  \/ PollDelay(c)
  \/ PrepareDone(c)
  \/ DispatchDone(c)
  \/ RetryDelay(c)

\* One task calls into the statement, with every method.
Next == Background(MaxVersion, MaxConnectFailures) \/ Caller("c1", Methods)

Spec == Init /\ [][Next]_vars

\* The same, with the history of the Prepared states kept.
HistorySpec == HistoryInit /\ [][Next]_vars

\* The serve command with any setting of debug and of the stopper of each
\* server: the threads run, servers may end on their own, /stop is requested.
StopInit ==
  /\ cl_state = ClientState_Disconnected(0)
  /\ bg = "spawned"
  /\ st_state = StatementState_Init(0)
  /\ st_log = <<>>
  /\ st_prepares = {}
  /\ call = [c \in Callers |-> Idle(Result_None)]
  /\ io = IoNone
  /\ connect_failures = 0
  /\ EntityInit
  /\ st_prepared = None
  /\ \E debug \in BOOLEAN, stopper \in [Servers -> BOOLEAN] :
       serve = Some(Serving(debug, stopper))

StopNext ==
  \/ ThreadStep
  \/ \E i \in Servers : ServerEnds(i) \/ StopRequest(i, MaxStops)

StopSpec == StopInit /\ [][StopNext]_vars

\* One task looks a user up by id, on a connection that stays alive.
EntityNext == GetById

EntitySpec == Init /\ [][EntityNext]_vars

\* Versions are checked while the background task connects and reconnects.
CheckVersionNext ==
  \/ Background(MaxVersion, MaxConnectFailures)
  \/ \E version \in 0..MaxVersion : CheckVersion(version)

CheckVersionSpec == Init /\ [][CheckVersionNext]_vars

\* The startup task warms the statements of a new DbService; nothing else runs.
WarmupNext ==
  \/ Background(MaxVersion, MaxConnectFailures)
  \/ WarmStart
  \/ WarmGetClientDelay
  \/ WarmPrepareDone

WarmupSpec == Init /\ [][WarmupNext]_vars

\* Every caller calls into the same statement concurrently.
ConcNext == Background(MaxVersionConc, 0) \/ \E c \in Callers : Caller(c, ConcMethods)

ConcSpec == Init /\ [][ConcNext]_vars

----------------------------------------------------------------------------
\* Properties

\* the step sends a physical dispatch (cl.$method) on behalf of caller c
DispatchIssued(c) ==
  call'[c].pc = "dispatch" /\ call'[c].dispatches # call[c].dispatches

\* C1: whenever a dispatch method issues its physical call, the statement it
\* uses is the one held in Prepared(v), and the manager is Connected(v) with
\* that same v at that moment; a Prepared(v) statement is never dispatched
\* while the manager is at another version or is not Connected.
C1_DispatchOnCurrentVersion ==
  [][\A c \in Callers :
       DispatchIssued(c) =>
         /\ st_state' = StatementState_Prepared(call'[c].cl)
         /\ cl_state' = ClientState_Connected(call'[c].cl)]_vars

\* a dispatch is in flight on the second connection, after the statement was
\* prepared on the first one
C1_Witness ==
  \E c \in Callers :
    /\ call[c].pc = "dispatch"
    /\ call[c].cl = 2
    /\ 1 \in st_prepares

\* C4: the version of the Connection State starts at Disconnected(0); every
\* newly entered Connecting state carries the previous version plus one, and
\* Connected(v) is only entered from Connecting(v): the version never
\* decreases and never repeats across connect sequences.
C4_VersionMonotonic ==
  /\ cl_state = ClientState_Disconnected(0)
  /\ [][cl_state' # cl_state =>
          \/ /\ cl_state'.kind = "Connecting"
             /\ cl_state'.version = cl_state.version + 1
          \/ /\ cl_state'.kind = "Connected"
             /\ cl_state = ClientState_Connecting(cl_state'.version)]_vars

\* the third connect sequence has been started after two connections
C4_Witness == cl_state = ClientState_Connecting(3)

\* the step sends a prepare request (cl.1.prepare) on behalf of caller c: every
\* step of a caller that ends suspended in the prepare has just sent one
PrepareIssued(c) ==
  call'[c] # call[c] /\ call'[c].pc = "prepare"

\* the background task has seen the I/O future of the connection of `version`
\* complete (it is in its backoff delay, has stopped, or is already past it)
ConnectionEnded(version) ==
  \/ version < cl_state.version
  \/ version = cl_state.version /\ bg \in {"backoff", "stopped"}

\* C2: once the background task has observed that the connection of version v
\* has ended, no caller sends a prepare or a dispatch to the version-v client
\* any more, the backoff interval included.
C2_NoRequestOnEndedConnection ==
  [][\A c \in Callers :
       (PrepareIssued(c) \/ DispatchIssued(c)) => ~ConnectionEnded(call'[c].cl)]_vars

\* C3: when the connection of Connected(v) ends, for either result of the
\* connection I/O future, the background task keeps running (it goes on to the
\* backoff that leads to Connecting(v+1)); it never stops.
C3_BackgroundKeepsRunning ==
  [][bg = "serving" => bg' \in {"serving", "backoff"}]_vars

\* a caller in the middle of get_statement's loop or about to enter it
EntersGetStatement(c) ==
  call[c].pc \in {"idle", "retry"} /\ call'[c] # call[c]

\* C8: a statement sends at most one prepare request to the client of each
\* version, and a call made while the statement is Prepared(v) and the manager
\* is Connected(v) gets that same statement without any prepare request.
C8_OnePreparePerVersion ==
  [][\A c \in Callers :
       /\ PrepareIssued(c) => call'[c].cl \notin st_prepares
       /\ ( /\ EntersGetStatement(c)
            /\ st_state.kind = "Prepared"
            /\ cl_state = ClientState_Connected(st_state.version) )
          => ( /\ st_state' = st_state
               /\ st_prepares' = st_prepares
               /\ call'[c].pc \in {"idle", "dispatch"}
               /\ call'[c].pc = "dispatch" => call'[c].cl = st_state.version
               /\ call'[c].pc = "idle" => call'[c].result = Result_Ok(st_state.version) )]_vars

\* C5: a connection-closed failure is never returned to a caller as such: a
\* call returns Ok, DisconnectedError, or a PgError that is not of the
\* connection-closed class (so a call whose failures are all connection-closed
\* returns Ok or DisconnectedError).
C5_ClosedNeverSurfaced ==
  \A c \in Callers :
    call[c].pc = "idle" =>
      /\ call[c].result.kind \in {"None", "Ok", "DisconnectedError", "PgError"}
      /\ call[c].result.kind = "PgError" =>
           ~(call[c].result.err.code = "None"
             /\ call[c].result.err.msg = "connection closed")

\* a dispatch failed with "connection closed" several times and is being retried
C5_Witness ==
  \E c \in Callers : call[c].pc = "retry" /\ call[c].retries >= 2

\* C10: the retry counter of a dispatch call is incremented once per
\* connection-closed failure of a physical dispatch; the call returns
\* DisconnectedError at the failure that makes the counter reach MAX_RETRIES
\* (the 10th), and never issues an 11th physical dispatch.
C10_DispatchRetryCeiling ==
  /\ [](\A c \in Callers :
          /\ call[c].dispatches <= MAX_RETRIES
          /\ call[c].pc = "dispatch" => call[c].dispatches = call[c].retries + 1
          /\ call[c].pc = "retry" => call[c].dispatches = call[c].retries)
  /\ [][\A c \in Callers :
          ( /\ call[c].pc = "dispatch"
            /\ call'[c] # call[c]
            /\ ~connection_alive(call[c].cl) )
          => IF call[c].dispatches = MAX_RETRIES
             THEN call'[c] = Idle(DisconnectedError)
             ELSE /\ call'[c].pc = "retry"
                  /\ call'[c].retries = call[c].retries + 1]_vars

\* the 10th physical dispatch of one call is in flight on a closed connection
C10_Witness ==
  \E c \in Callers :
    /\ call[c].pc = "dispatch"
    /\ call[c].dispatches = MAX_RETRIES
    /\ ~connection_alive(call[c].cl)

\* C9: when the statement is Prepared(v) and the manager is Connected(w) with
\* w # v (so w > v), the next dispatch call detects the mismatch and moves the
\* statement through Init(v) and WaitingClient(v) to Preparing(w), sending the
\* prepare to the version-w client and dispatching nothing; when that prepare
\* succeeds the statement becomes Prepared(w), and the dispatch is sent only
\* then, on the version-w client. A dispatch always uses the statement held in
\* the Prepared state, so the version-v statement is never dispatched and is no
\* longer held.
C9_RepreparesOnNewVersion ==
  [][\A c \in Callers :
       /\ ( /\ call[c].pc \in {"idle", "retry"}
            /\ call'[c] # call[c]
            /\ call'[c].op \in DispatchMethods
            /\ st_state.kind = "Prepared"
            /\ cl_state.kind = "Connected"
            /\ cl_state.version # st_state.version )
          => ( /\ cl_state.version > st_state.version
               /\ st_log' = << StatementState_Init(st_state.version),
                               StatementState_WaitingClient(st_state.version),
                               StatementState_Preparing(cl_state.version) >>
               /\ st_state' = StatementState_Preparing(cl_state.version)
               /\ call'[c].pc = "prepare"
               /\ call'[c].cl = cl_state.version
               /\ ~DispatchIssued(c) )
       /\ ( /\ call[c].pc = "prepare"
            /\ call[c].op \in DispatchMethods
            /\ call[c].gs_retries = 1
            /\ call'[c] # call[c]
            /\ connection_alive(call[c].cl)
            /\ st_log' # <<>>
            /\ st_log'[1].kind = "Prepared" )
          => ( /\ st_log' = << StatementState_Prepared(call[c].cl) >>
               /\ st_state' = StatementState_Prepared(call[c].cl)
               /\ DispatchIssued(c)
               /\ call'[c].cl = call[c].cl )
       /\ DispatchIssued(c)
          => ( /\ st_state' = StatementState_Prepared(call'[c].cl)
               /\ call'[c].cl = cl_state.version )]_vars

\* a dispatch call found Prepared(1) while the manager was Connected(2) and has
\* sent the prepare request to the version-2 client
C9_Witness ==
  \E c \in Callers :
    /\ call[c].pc = "prepare"
    /\ call[c].op \in DispatchMethods
    /\ call[c].cl = 2
    /\ st_log = << StatementState_Init(1), StatementState_WaitingClient(1),
                   StatementState_Preparing(2) >>

\* the error is of the connection-closed class: no server error code and the
\* text "connection closed"
ClosedClass(err) == err.code = "None" /\ err.msg = "connection closed"

\* C11: when the prepare request of a statement completes with an error that is
\* not of the connection-closed class (server-side with a code, or another
\* client-side error), the call returns that same error in that step: the
\* prepare is not repeated, the manager is not polled again, nothing is
\* dispatched.
C11_FatalPrepareErrorPropagates ==
  [][\A c \in Callers :
       ( /\ call[c].pc = "prepare"
         /\ call'[c] # call[c]
         /\ io'.req = "prepare"
         /\ io'.err # NoError
         /\ ~ClosedClass(io'.err) )
       => ( /\ call'[c] = Idle(PgError(io'.err))
            /\ st_log' = <<>>
            /\ st_prepares' = st_prepares
            /\ ~PrepareIssued(c)
            /\ ~DispatchIssued(c) )]_vars

\* a query call has returned the server-side error of its prepare request
C11_Witness ==
  /\ io = Completed("prepare", ErrServer)
  /\ call["c1"] = Idle(PgError(ErrServer))
  /\ st_prepares = {1}

\* C12: when a physical dispatch completes with a server-side error or with a
\* client-side error other than connection-closed, the call returns that same
\* error in that step, whatever its retry counter is: no get_statement, no
\* prepare and no dispatch follow. The dispatch is retried (or, at the ceiling,
\* answered with DisconnectedError) if and only if the error has no server
\* error code and is of the connection-closed class.
C12_FatalDispatchErrorPropagates ==
  [][\A c \in Callers :
       ( /\ call[c].pc = "dispatch"
         /\ call'[c] # call[c]
         /\ io'.req = "dispatch"
         /\ io'.err # NoError )
       => /\ ~ClosedClass(io'.err)
             => ( /\ call'[c] = Idle(PgError(io'.err))
                  /\ st_log' = <<>>
                  /\ st_state' = st_state
                  /\ st_prepares' = st_prepares )
          /\ ClosedClass(io'.err)
             <=> ( \/ call'[c].pc = "retry" /\ call'[c].retries = call[c].retries + 1
                   \/ call'[c] = Idle(DisconnectedError) )]_vars

\* an execute call has returned the client-side error of its dispatch, which was
\* sent on the second connection after the statement was prepared on the first
C12_Witness ==
  /\ io = Completed("dispatch", ErrClient)
  /\ call["c1"] = Idle(PgError(ErrClient))
  /\ st_prepares = {1, 2}

\* C13: while connect attempts fail the state stays Connecting(v) with the same
\* v, for any number of failed attempts, and the first successful attempt makes
\* it Connected(v) with that v; from startup the states are Disconnected(0),
\* Connecting(1) throughout the retries, then Connected(1), and nothing else in
\* between.
C13_SameVersionWhileConnecting ==
  /\ [](bg \in {"connect", "connect_delay"} => cl_state.kind = "Connecting")
  /\ [][(bg \in {"connect", "connect_delay"}) =>
          ( \/ cl_state' = cl_state
            \/ bg = "connect" /\ cl_state' = ClientState_Connected(cl_state.version) )]_vars
  /\ [][connect_failures' > connect_failures => cl_state' = cl_state]_vars
  /\ [](cl_state.version <= 1 =>
          cl_state \in {ClientState_Disconnected(0), ClientState_Connecting(1),
                        ClientState_Connected(1)})
  /\ [][(cl_state'.version <= 1 /\ cl_state' # cl_state) =>
          ( \/ cl_state = ClientState_Disconnected(0)
               /\ cl_state' = ClientState_Connecting(1)
            \/ cl_state = ClientState_Connecting(1)
               /\ cl_state' = ClientState_Connected(1) )]_vars

\* the first connection has been made at the third attempt, after two failures
C13_Witness ==
  /\ cl_state = ClientState_Connected(1)
  /\ bg = "serving"
  /\ connect_failures = 2

\* C14: get_client returns the client at the first poll that observes Connected,
\* without waiting (the caller goes on to the prepare in the same step); it
\* returns DisconnectedError exactly when its 10th poll, like the 9 before it,
\* has observed Connecting or Disconnected and the delay after it is over; there
\* is no 11th poll. A call suspended in get_client with gc_retries = g has made
\* g + 1 polls.
C14_GetClientCeiling ==
  /\ [](\A c \in Callers :
          call[c].pc = "get_client" =>
            /\ call[c].gc_retries + 1 <= MAX_RETRIES
            /\ st_state.kind = "WaitingClient")
  /\ [][\A c \in Callers :
          /\ ( /\ call[c].pc \in {"idle", "retry"}
               /\ call'[c] # call[c]
               /\ st_state.kind = "Init" )
             => IF cl_state.kind = "Connected"
                THEN call'[c].pc = "prepare" /\ call'[c].cl = cl_state.version
                ELSE call'[c].pc = "get_client" /\ call'[c].gc_retries = 0
          /\ ( call[c].pc = "get_client" /\ call'[c] # call[c] )
             => IF call[c].gc_retries + 1 = MAX_RETRIES
                THEN call'[c] = Idle(DisconnectedError)
                ELSE IF cl_state.kind = "Connected"
                     THEN call'[c].pc = "prepare" /\ call'[c].cl = cl_state.version
                     ELSE /\ call'[c].pc = "get_client"
                          /\ call'[c].gc_retries = call[c].gc_retries + 1]_vars

\* the 10th poll of one get_client call has observed Connecting
C14_Witness ==
  \E c \in Callers :
    /\ call[c].pc = "get_client"
    /\ call[c].gc_retries + 1 = MAX_RETRIES
    /\ cl_state.kind = "Connecting"

\* C15: a successful dispatch result reaches the caller unchanged: query_opt
\* returns Ok(None) when the dispatch yielded no row and Ok(Some(row)) when it
\* yielded one row, and get_by_id maps None to None and Some(row) to the user
\* whose fields are the columns of that row, in select order.
C15_ResultUnchanged ==
  (q.called /\ q.err = NoError) =>
    /\ q.ret.kind = "Ok"
    /\ q.value = q.row
    /\ q.row = None => q.user = None
    /\ \A r \in q.row :
         q.user = { [id |-> r[1], username |-> r[2], email |-> r[3],
                     password |-> r[4], bio |-> r[5], image |-> r[6],
                     created_at |-> r[7], updated_at |-> r[8]] }

\* get_by_id has returned the user of a row whose id and username differ
C15_Witness ==
  /\ q.called
  /\ q.err = NoError
  /\ \E r \in q.row : r[1] = 1 /\ r[2] = 0
  /\ q.user # None

\* C16: DbService::prepare calls prepare once on each statement in a fixed order
\* (the statements after the one it is at are untouched, those before it are
\* Prepared); it returns at the first statement whose prepare fails, with that
\* error, and touches nothing afterwards; while the database has never been
\* reachable that error is DisconnectedError; when it returns Ok every
\* statement is Prepared.
C16_WarmupFailFast ==
  /\ [](\A i \in 1..NumHandles :
          /\ i > warm.pos => handles[i] = StatementState_Init(0)
          /\ i < warm.pos => handles[i].kind = "Prepared")
  /\ [](warm.result.kind = "Ok" =>
          \A i \in 1..NumHandles : handles[i].kind = "Prepared")
  /\ []((warm.result # Result_None /\ cl_state.kind # "Connected"
          /\ cl_state.version <= 1)
        => (warm.result = DisconnectedError /\ warm.pos = 1))
  /\ [][/\ warm'.pos \in {warm.pos, warm.pos + 1}
        /\ (warm'.result.kind \notin {"None", "Ok"} /\ warm.result = Result_None)
           => ( /\ warm'.pos = warm.pos
                /\ warm'.result = call'["c1"].result
                /\ io'.req = "prepare" /\ io'.err \notin {NoError, ErrClosed}
                   => warm'.result = PgError(io'.err) )
        /\ warm.result # Result_None
           => (handles' = handles /\ warm' = warm /\ call' = call)]_vars

\* the warm-up has returned Ok: the first statement was prepared on the first
\* connection and the last one on the second
C16_Witness ==
  /\ warm.result.kind = "Ok"
  /\ handles[1] = StatementState_Prepared(1)
  /\ handles[NumHandles] = StatementState_Prepared(2)

\* C17: a statement in WaitingClient or Preparing has a caller inside the Init
\* branch of get_statement on it (suspended in get_client or in the prepare);
\* so whenever no call is in progress the statement is in Init or Prepared.
C17_TransientStateHasOwner ==
  st_state.kind \in {"WaitingClient", "Preparing"} =>
    \E c \in Callers : call[c].pc \in {"get_client", "prepare"}

\* C19: when get_client fails inside the Init branch entered from Init(v), the
\* statement is put back to Init(v), the same v, and the call returns
\* DisconnectedError in that step: no prepare request is sent and the manager
\* is not polled again.
C19_GetClientFailureReverts ==
  /\ [](\A c \in Callers :
          call[c].pc = "get_client" =>
            st_state = StatementState_WaitingClient(call[c].version))
  /\ [][\A c \in Callers :
          ( /\ call[c].pc = "get_client"
            /\ call'[c] # call[c]
            /\ call[c].gc_retries + 1 = MAX_RETRIES )
          => ( /\ call'[c] = Idle(DisconnectedError)
               /\ st_state' = StatementState_Init(st_state.version)
               /\ st_log' = <<StatementState_Init(st_state.version)>>
               /\ st_prepares' = st_prepares
               /\ ~PrepareIssued(c) )]_vars

\* a call that found Prepared(1) outdated and then no connection has put the
\* statement back to Init(1) and returned DisconnectedError
C19_Witness ==
  /\ call["c1"] = Idle(DisconnectedError)
  /\ io = IoNone
  /\ st_log = <<StatementState_Init(1)>>
  /\ st_state = StatementState_Init(1)
  /\ cl_state.kind = "Connecting"

\* C20: when the prepare request sent on the connection of version v2 completes
\* with a connection-closed error, get_statement sets the statement to Init(v2),
\* the version of the fetched connection, and goes on with its loop (the next
\* iteration enters the Init branch again); the call returns only if that was
\* the last iteration allowed, and then with DisconnectedError.
C20_ClosedPrepareLoops ==
  [][\A c \in Callers :
       ( /\ call[c].pc = "prepare"
         /\ call'[c] # call[c]
         /\ io' = Completed("prepare", ErrClosed) )
       => ( /\ st_log' # <<>>
            /\ st_log'[1] = StatementState_Init(call[c].cl)
            /\ IF call[c].gs_retries + 1 >= MAX_RETRIES
               THEN /\ call'[c] = Idle(DisconnectedError)
                    /\ st_state' = StatementState_Init(call[c].cl)
               ELSE /\ call'[c].pc \in {"get_client", "prepare"}
                    /\ call'[c].gs_retries = call[c].gs_retries + 1
                    /\ Len(st_log') >= 2
                    /\ st_log'[2] = StatementState_WaitingClient(call[c].cl) )]_vars

\* the statement had been prepared on the first connection; the prepare sent on
\* the second one has failed with connection closed and the statement has gone
\* through Init(2), not Init(1)
C20_Witness ==
  /\ io = Completed("prepare", ErrClosed)
  /\ st_prepares = {1, 2}
  /\ Len(st_log) >= 1
  /\ st_log[1] = StatementState_Init(2)
  /\ call["c1"].pc \in {"get_client", "prepare"}

----------------------------------------------------------------------------
\* Scheduling: the reactor polls every task whose timer (delay_for) has fired or
\* whose physical request has completed, so a suspended call always takes its
\* next step. Nothing is assumed of the background task: the database may stay
\* unreachable and the connection may end at any time, or never.
Progress(c) ==
  \/ GetClientDelay(c)
  \/ PollDelay(c)
  \/ PrepareDone(c)
  \/ DispatchDone(c)
  \/ RetryDelay(c)

\* What a running call has left to do, as a number that every step of the call
\* decreases: the retries left to the dispatch method, then the position in its
\* loop (delay, get_statement, dispatch), then the iterations left to
\* get_statement, then the position in its Init branch (get_client, prepare),
\* then the polls left to get_client.
Rank(r) ==
  LET outer == CASE r.pc = "retry" -> 2
                 [] r.pc \in {"get_client", "prepare", "poll"} -> 1
                 [] OTHER -> 0
      inner == IF r.pc = "get_client" THEN 1 ELSE 0
      base  == MAX_RETRIES + 1
  IN  ((((MAX_RETRIES - r.retries) * 3 + outer) * base
          + (MAX_RETRIES - r.gs_retries)) * 2 + inner) * base
        + (MAX_RETRIES - r.gc_retries)

\* The step a running call is waiting for is possible and changes the call: what
\* GetClientDelay, PollDelay, PrepareDone, DispatchDone and RetryDelay make of
\* the record of caller c differs from it (for some completion of its request).
CanStep(c) ==
  LET r == call[c]
  IN  CASE r.pc = "get_client" ->
             after_get_statement(r, get_client_delayed(cl_state, r.gs_retries,
                                                       r.gc_retries, r.version)) # r
        [] r.pc = "poll" ->
             after_get_statement(r, get_statement_next(cl_state, st_state, <<>>,
                                                       r.gs_retries)) # r
        [] r.pc = "prepare" ->
             \E err \in physical_outcomes(r.cl) :
               after_get_statement(r, prepared(cl_state, st_state, r.gs_retries,
                                               r.cl, err)) # r
        [] r.pc = "dispatch" ->
             \E err \in physical_outcomes(r.cl) : dispatched(r, err) # r
        [] r.pc = "retry" ->
             after_get_statement(r, get_statement(cl_state, st_state)) # r
        [] OTHER -> FALSE

\* No call hangs, whatever the physical connection does and however the callers
\* interleave: a running call can always take a next step that changes the state
\* (its timer fires, its physical request completes), and each step either
\* returns or decreases Rank, which is never negative, so the call returns after
\* finitely many of its own steps.
CallsTerminate ==
  /\ [](\A c \in Callers :
          /\ call[c].pc # "idle" => CanStep(c)
          /\ Rank(call[c]) >= 0)
  /\ [][\A c \in Callers :
          (call[c].pc # "idle" /\ call'[c] # call[c])
          => (call'[c].pc = "idle" \/ Rank(call'[c]) < Rank(call[c]))]_vars

\* C6: no call hangs, and during a permanent outage a call returns
\* DisconnectedError: once the background task has stopped (no connection is
\* alive and none will be made again), whatever a call returns is
\* DisconnectedError.
C6_OutageReturnsDisconnected ==
  [][\A c \in Callers :
       ( /\ bg = "stopped"
         /\ call'[c] # call[c]
         /\ call'[c].pc = "idle" )
       => call'[c].result = DisconnectedError]_vars

----------------------------------------------------------------------------
\* The reconnect scenario: an earlier task prepared the statement on the first
\* connection, that connection has just ended (conn.await returned Err) and the
\* background task is reconnecting. Two fresh request tasks each invoke one
\* dispatch method on the statement while that reconnect is in flight.
ReconnectInit ==
  /\ cl_state = ClientState_Connected(1)
  /\ bg = "backoff"
  /\ st_state = StatementState_Prepared(1)
  /\ st_log = <<>>
  /\ st_prepares = {1}
  /\ call = [c \in Callers |-> Idle(Result_None)]
  /\ io = IoNone
  /\ connect_failures = 0
  /\ EntityInit
  /\ st_prepared = None
  /\ serve = None

\* the reconnect that follows the end of the first connection is in flight
ReconnectInFlight ==
  \/ cl_state = ClientState_Connected(1) /\ bg = "backoff"
  \/ cl_state = ClientState_Connecting(2)

ReconnectCall(c) ==
  /\ ReconnectInFlight
  /\ call[c].result = Result_None
  /\ Call(c, "execute")

ReconnectNext ==
  Background(MaxVersionConc, 0) \/ \E c \in Callers : ReconnectCall(c) \/ Progress(c)

ReconnectSpec == ReconnectInit /\ [][ReconnectNext]_vars

\* C7 as claimed: every caller that invoked a dispatch while the reconnect was
\* in flight has, once it has returned and the reconnect has succeeded, a
\* successful result dispatched on the post-reconnect connection (none is left
\* with an error while the others succeed).
C7_AllCallersSucceed ==
  \A c \in Callers :
    ( /\ call[c].pc = "idle"
      /\ call[c].result # Result_None
      /\ call[c].result.kind # "PgError"
      /\ cl_state = ClientState_Connected(2) )
    => call[c].result = Result_Ok(2)

\* C7 amended: every caller that invoked a dispatch while the reconnect was in
\* flight returns after finitely many of its own steps (each is always possible
\* and decreases Rank); what it returns is a successful result dispatched on a
\* connection made after the drop, or DisconnectedError (its retry ceiling was
\* reached, which can happen although the reconnect then succeeds and although
\* another caller succeeds), or a database error that is not of the
\* connection-closed class; none returns a result of the pre-drop connection.
C7_AllCallersReturn ==
  /\ CallsTerminate
  /\ [](\A c \in Callers :
          /\ call[c].result.kind \in {"None", "Ok", "DisconnectedError", "PgError"}
          /\ call[c].result.kind = "Ok" => call[c].result.version >= 2
          /\ call[c].result.kind = "PgError" =>
               call[c].result.err.msg # "connection closed")

\* both callers invoked execute during the reconnect: one got its result from
\* the second connection, the other was left with DisconnectedError
C7_Witness ==
  /\ call["c1"].pc = "idle" /\ call["c1"].result = Result_Ok(2)
  /\ call["c2"].pc = "idle" /\ call["c2"].result = DisconnectedError

----------------------------------------------------------------------------
\* The recovery scenario: a call on the statement has just failed and a
\* connection is up; from then on the connection stays up and every prepare and
\* dispatch request succeeds. The failed call was one of: get_client gave up
\* while the connect was still in progress (DisconnectedError, statement back
\* in Init); the prepare request failed with a server-side or other
\* client-side error; the dispatch failed with such an error. The same on a
\* later connection v, the statement having been prepared on the earlier ones.
RecoverInit ==
  /\ bg = "serving"
  /\ st_log = <<>>
  /\ connect_failures = 0
  /\ EntityInit
  /\ st_prepared = None
  /\ serve = None
  /\ \E v \in 1..MaxVersionConc :
       /\ cl_state = ClientState_Connected(v)
       /\ \/ /\ st_state = StatementState_Init(v - 1)
             /\ st_prepares = 1..(v - 1)
             /\ io = IoNone
             /\ call = [c \in Callers |->
                         IF c = "c1" THEN Idle(DisconnectedError) ELSE Idle(Result_None)]
          \/ \E e \in {ErrClient, ErrServer} :
               /\ st_state = StatementState_Preparing(v)
               /\ st_prepares = 1..v
               /\ io = Completed("prepare", e)
               /\ call = [c \in Callers |->
                           IF c = "c1" THEN Idle(PgError(e)) ELSE Idle(Result_None)]
          \/ \E e \in {ErrClient, ErrServer} :
               /\ st_state = StatementState_Prepared(v)
               /\ st_prepares = 1..v
               /\ io = Completed("dispatch", e)
               /\ call = [c \in Callers |->
                           IF c = "c1" THEN Idle(PgError(e)) ELSE Idle(Result_None)]

\* the next calls on the statement
RecoverCall(c) == \E m \in Methods : Call(c, m)

\* a step of a running call whose physical request, if any, succeeds
RecoverStep(c) ==
  /\ PollDelay(c) \/ PrepareDone(c) \/ DispatchDone(c)
  /\ io'.err = NoError

\* one task calls into the statement, one call after the other
RecoverNext == RecoverCall("c1") \/ RecoverStep("c1")

RecoverSpec == RecoverInit /\ [][RecoverNext]_vars

\* C18: after a call on a statement has failed with any error, the statement
\* remains usable: with the manager Connected and every prepare and dispatch
\* request succeeding from then on, whatever a call on it returns is a success.
C18_UsableAfterFailure ==
  [][\A c \in Callers :
       (call'[c] # call[c] /\ call'[c].pc = "idle")
       => call'[c].result.kind = "Ok"]_vars

----------------------------------------------------------------------------
\* The loop of get_statement. A call suspended inside get_statement with
\* gs_retries = g is in iteration g + 1 of the loop; suspended in get_client or
\* in the prepare, it has made the get_client call of that iteration.

\* the positions of the set_state(kind(..)) calls of the last step
SetStates(log, kind) == {i \in DOMAIN log : log[i].kind = kind}

\* C21: one get_statement call runs at most 10 iterations of its loop: every
\* get_client call and every prepare request of the call belongs to an iteration
\* of its own (one of each per iteration at most, each later one in a later
\* iteration), so there are at most 10 of each; and when the 10th iteration
\* comes to the end of the loop body (its poll delay is over, or its prepare has
\* completed with success or with connection closed) the call fails with
\* DisconnectedError.
C21_GetStatementCeiling ==
  /\ [](\A c \in Callers :
          call[c].pc \in {"get_client", "prepare", "poll"} =>
            call[c].gs_retries + 1 <= MAX_RETRIES)
  /\ [][\A c \in Callers :
          call'[c] # call[c] =>
            /\ Cardinality(SetStates(st_log', "WaitingClient")) <= 1
            /\ Cardinality(SetStates(st_log', "Preparing")) <= 1
            /\ ( /\ call[c].pc \in {"get_client", "prepare", "poll"}
                 /\ call'[c].pc \in {"get_client", "prepare", "poll"} )
               => call'[c].gs_retries >= call[c].gs_retries
            /\ ( /\ call[c].pc \in {"get_client", "prepare"}
                 /\ SetStates(st_log', "WaitingClient") # {} )
               => ( /\ call'[c].pc \in {"get_client", "prepare"}
                    /\ call'[c].gs_retries > call[c].gs_retries )
            /\ ( call[c].pc = "prepare" /\ PrepareIssued(c) )
               => call'[c].gs_retries > call[c].gs_retries
            /\ ( /\ call[c].gs_retries + 1 = MAX_RETRIES
                 /\ \/ call[c].pc = "poll"
                    \/ /\ call[c].pc = "prepare"
                       /\ io'.err = NoError \/ ClosedClass(io'.err) )
               => call'[c] = Idle(DisconnectedError)]_vars

\* the prepare request of the 10th iteration is in flight, the one of the 9th
\* having failed with connection closed
C21_Witness ==
  \E c \in Callers :
    /\ call[c].pc = "prepare"
    /\ call[c].gs_retries + 1 = MAX_RETRIES
    /\ io = Completed("prepare", ErrClosed)

\* a step in which get_statement returns to caller c (the step starts inside
\* get_statement or enters it; the completion of a dispatch is not one)
GetStatementReturns(c) ==
  /\ call[c].pc \in {"idle", "retry", "get_client", "prepare", "poll"}
  /\ call'[c] # call[c]
  /\ call'[c].pc \in {"idle", "dispatch"}

\* C22: get_statement never returns DisconnectedError leaving the statement
\* Prepared(v) while the manager is Connected(v); a prepare request that
\* succeeds on the connection the manager currently publishes, in any iteration
\* of the loop, the last allowed one included, gives the statement to the
\* caller (prepare returns Ok, a dispatch method sends its dispatch).
C22_PreparedIsReturned ==
  [][\A c \in Callers :
       /\ ( GetStatementReturns(c) /\ call'[c].pc = "idle"
            /\ call'[c].result = DisconnectedError )
          => ~( /\ st_state'.kind = "Prepared"
                /\ cl_state' = ClientState_Connected(st_state'.version) )
       /\ ( /\ call[c].pc = "prepare"
            /\ call'[c] # call[c]
            /\ io' = Completed("prepare", NoError)
            /\ cl_state = ClientState_Connected(call[c].cl) )
          => ( \/ call'[c].pc = "dispatch"
               \/ call'[c].pc = "idle" /\ call'[c].result.kind = "Ok" )]_vars

\* the callers that are inside the Init branch of get_statement: between
\* set_state(WaitingClient) and the completion of the prepare request
Drivers == {c \in Callers : call[c].pc \in {"get_client", "prepare"}}

\* C23: however the concurrent callers of one statement interleave, at most one
\* of them at a time is inside the Init branch (between setting WaitingClient
\* and leaving Preparing), so at most one prepare request of the statement is
\* in flight; while the statement is WaitingClient or Preparing every other
\* caller that runs get_statement only waits for its poll delay or gives up at
\* its ceiling: it sets no state, calls no get_client and sends no prepare.
C23_SingleDriver ==
  /\ [](Cardinality(Drivers) <= 1)
  /\ [](\A c \in Callers :
          /\ call[c].pc = "get_client" => st_state.kind = "WaitingClient"
          /\ call[c].pc = "prepare" => st_state = StatementState_Preparing(call[c].cl))
  /\ [][\A c \in Callers :
          ( /\ st_state.kind \in {"WaitingClient", "Preparing"}
            /\ call[c].pc \in {"idle", "retry", "poll"}
            /\ call'[c] # call[c] )
          => ( /\ \/ call'[c].pc = "poll"
                  \/ call'[c] = Idle(DisconnectedError)
               /\ st_log' = <<>>
               /\ st_state' = st_state
               /\ st_prepares' = st_prepares
               /\ ~PrepareIssued(c) )]_vars

\* one caller's prepare request is in flight while the other has polled the
\* Preparing state several times
C23_Witness ==
  /\ call["c1"].pc = "prepare"
  /\ call["c2"].pc = "poll"
  /\ call["c2"].gs_retries >= 2
  /\ st_state.kind = "Preparing"

\* C24: only the background task changes the Connection State: every step of a
\* call (get_client, check_version, get_statement, prepare, the four dispatch
\* methods), whether it succeeds or fails, leaves kind, version and client as
\* they are, and a step that changes them is a step of the background task and
\* of no call; in particular a step that handles a connection-closed failure
\* does not change the version.
C24_OnlyBackgroundWritesClientState ==
  /\ [][(\E c \in Callers : call'[c] # call[c]) => cl_state' = cl_state]_vars
  /\ [][(st_state' # st_state \/ st_log' # <<>>) => cl_state' = cl_state]_vars
  /\ [][cl_state' # cl_state =>
          /\ bg # bg'
          /\ bg' \in {"connect", "serving"}
          /\ call' = call
          /\ st_state' = st_state]_vars
  /\ [][ClosedClass(io'.err) => cl_state' = cl_state]_vars

\* a dispatch has failed with connection closed after the connection ended: the
\* call is about to retry and the state is still Connected(1)
C24_Witness ==
  /\ io = Completed("dispatch", ErrClosed)
  /\ call["c1"].pc = "retry"
  /\ cl_state = ClientState_Connected(1)
  /\ bg \in {"backoff", "stopped"}

\* C25: check_version(v) returns true if and only if the Connection State is
\* Connected with version exactly v: it returns false for Connecting(v) and
\* Disconnected(v) although the number is equal, and for Connected(w) with
\* w # v.
C25_CheckVersionExact ==
  \A r \in cv :
    /\ r.ret <=> (r.cs.kind = "Connected" /\ r.cs.version = r.version)
    /\ r.cs.kind \in {"Connecting", "Disconnected"} => ~r.ret
    /\ (r.cs.kind = "Connected" /\ r.cs.version # r.version) => ~r.ret
    /\ r.cs = ClientState_Connected(r.version) => r.ret

\* check_version(2) was called while the state was Connecting(2) and returned
\* false
C25_Witness ==
  cv = Some([version |-> 2, cs |-> ClientState_Connecting(2), ret |-> FALSE])

\* C26: in every reachable state the version held in the statement's state
\* (Init, WaitingClient, Preparing or Prepared) is less than or equal to the
\* version of the manager's current Connection State.
C26_StatementNotAhead ==
  /\ st_state.kind \in {"Init", "WaitingClient", "Preparing", "Prepared"}
  /\ st_state.version <= cl_state.version

\* the statement is Prepared on the second connection while the manager is
\* already connecting the third
C26_Witness ==
  /\ st_state = StatementState_Prepared(2)
  /\ cl_state = ClientState_Connecting(3)

\* C27: the versions of the successive Prepared states of a statement strictly
\* increase: once the statement has left Prepared(v) it never enters a Prepared
\* state of a version less than or equal to v again.
C27_PreparedVersionsIncrease ==
  \A versions \in st_prepared :
    /\ \A i, j \in DOMAIN versions : i < j => versions[i] < versions[j]
    /\ st_state.kind = "Prepared" =>
         /\ versions # <<>>
         /\ versions[Len(versions)] = st_state.version

\* the statement was Prepared on the first connection, left that state and is
\* Prepared on the third: its prepare on the second connection had failed
C27_Witness ==
  /\ st_prepared = Some(<<1, 3>>)
  /\ st_state = StatementState_Prepared(3)
  /\ 2 \in st_prepares



----------------------------------------------------------------------------
\* Shutdown coordination

\* the HTTP server of server i is not running: it has stopped, or it never ran
\* because run_server failed before
ServerNotRunning(s, i) == s.srv[i] \in {"stopped", "terminated", "failed"}

\* C28: wait_shutdown returns normally only when every registered server has
\* stopped: two completion events of one server are never counted in place of
\* the completion of a server that is still running.
C28_ReturnsWhenAllStopped ==
  \A s \in serve :
    s.main.pc = "returned" => \A i \in Servers : ServerNotRunning(s, i)

\* C29: wait_shutdown never panics on an event it treats as invalid: the main
\* thread never receives a Shutdown event while it waits for the servers to
\* stop, nor a StopServer event, however /stop requests and server
\* terminations interleave.
C29_NoInvalidEvent ==
  \A s \in serve :
    ~( /\ s.main.pc = "panicked"
       /\ s.main.panic \in {"Main thread received invalid event",
                            "Main thread received invalid event during shutdown"} )

\* a Shutdown event has been sent to the main thread, or every server thread
\* has terminated (run_server has returned, normally or with a startup error)
ShutdownDue(s) ==
  \/ s.stops > 0
  \/ \A i \in Servers : s.srv[i] \in {"terminated", "failed"}

\* C30: shutdown completes. Once a Shutdown event has been sent, and likewise
\* once every server thread has terminated, wait_shutdown returns after finitely
\* many steps of the threads: until it has returned some thread of the process
\* can take a step (every run of the threads is finite, so under fair
\* scheduling the main thread then returns).
C30_ShutdownCompletes ==
  \A s \in serve :
    (ShutdownDue(s) /\ s.main.pc # "returned") => ENABLED ThreadStep





====
